---- MODULE Spec2Model ----
(***************************************************************************)
(* Model of the three maintenance scripts of image-lemgendizer:            *)
(*   scripts/restore_fp32_onnx.py              fp16 -> fp32 graph rewrite  *)
(*                                             and its batch driver        *)
(*   scripts/verify_model_chain.py             UI / manifest / disk audit  *)
(*   scripts/standardize_restoration_models.py restoration dir cleanup     *)
(* Texts (file names, manifest lines) are sequences of tokens; raw tensor  *)
(* payloads are sequences of bytes 0..255.                                 *)
(***************************************************************************)
EXTENDS Integers, Sequences, FiniteSets, TLC

VARIABLES
    \* restore_fp32_onnx.py
    files,      \* the restoration directory as the driver sees it: name -> content
    idx,        \* position of the driver's for loop in `models`
    pc,         \* where the conversion script is
    graph,      \* model_fp16.graph, the graph being rewritten in memory
    k,          \* position of the running loop over initializers / nodes
    log,        \* what the script has printed or raised, in order
    \* verify_model_chain.py
    lines, ui_ids, present, mappings, li, ui,
    missing_in_copy, missing_on_disk, queried, apc,
    \* standardize_restoration_models.py
    dir0, dir, listing, cpc

convVars == <<files, idx, pc, graph, k, log>>
auditVars == <<lines, ui_ids, present, mappings, li, ui,
               missing_in_copy, missing_on_disk, queried, apc>>
cleanVars == <<dir0, dir, listing, cpc>>
vars == <<convVars, auditVars, cleanVars>>

-----------------------------------------------------------------------------
(* Bounds of the model *)

\* most initializers a generated graph holds
MaxInit == 2
\* most nodes a generated graph holds
MaxNodes == 1
\* most manifest lines
MaxLines == 2
\* most UI identifiers
MaxUi == 3
\* most entries the restoration directory holds when cleanup starts
MaxEntries == 3

-----------------------------------------------------------------------------
(* onnx enumerations used by the script *)

\* TensorProto.FLOAT
FLOAT == 1
\* TensorProto.FLOAT16
FLOAT16 == 10
\* TensorProto.INT64, a type the script never names
OTHER_TYPES == {7}

\* bytes per element of a data type
SizeOf(ty) == IF ty = FLOAT16 THEN 2 ELSE IF ty = FLOAT THEN 4 ELSE 8

-----------------------------------------------------------------------------
(* numpy: frombuffer(dtype=float16), astype(float32), tobytes *)

RECURSIVE Pow2(_)
Pow2(n) == IF n = 0 THEN 1 ELSE 2 * Pow2(n - 1)

\* index of the highest set bit of m > 0
RECURSIVE HighBit(_)
HighBit(m) == IF m < 2 THEN 0 ELSE 1 + HighBit(m \div 2)

\* np.frombuffer(raw, dtype=np.float16): little-endian 16-bit words; raises
\* ValueError when the buffer size is not a multiple of the element size
FromBufferRaises(raw) == Len(raw) % 2 # 0

FromBuffer(raw) == [j \in 1..(Len(raw) \div 2) |-> raw[2 * j - 1] + 256 * raw[2 * j]]

\* a single-precision bit pattern: sign bit, 8 exponent bits, 23 fraction bits
Float32(s, e, m) == [s |-> s, e |-> e, m |-> m]

\* astype(np.float32) on one half-precision bit pattern
HalfBitsToFloatBits_FlushSubnormals(h) ==
    LET s == h \div 32768
        e == (h \div 1024) % 32
        m == h % 1024
    IN  IF e = 0 THEN Float32(s, 0, 0)
        ELSE IF e = 31 THEN Float32(s, 255, m * 8192)
        ELSE Float32(s, e + 112, m * 8192)

HalfBitsToFloatBits(h) ==
    LET s == h \div 32768
        e == (h \div 1024) % 32
        m == h % 1024
    IN  IF e = 0
        THEN IF m = 0 THEN Float32(s, 0, 0)
             ELSE LET p == HighBit(m)
                  IN  Float32(s, 103 + p, (m - Pow2(p)) * Pow2(23 - p))
        ELSE IF e = 31 THEN Float32(s, 255, m * 8192)
        ELSE Float32(s, e + 112, m * 8192)

\* data.astype(np.float32)
AsType32(data) == [j \in 1..Len(data) |-> HalfBitsToFloatBits(data[j])]

\* the four little-endian bytes of one single-precision pattern
FloatBytes(f) ==
    << f.m % 256,
       (f.m \div 256) % 256,
       (f.m \div 65536) + 128 * (f.e % 2),
       (f.e \div 2) + 128 * f.s >>

\* data_f32.tobytes(): four little-endian bytes per element
ToBytes(data) ==
    [j \in 1..(4 * Len(data)) |-> FloatBytes(data[(j + 3) \div 4])[((j - 1) % 4) + 1]]

-----------------------------------------------------------------------------
(* The rewrite of one tensor, one declaration, one node *)

\* lines 35-51 (and 81-87): the new tensor, or a raise out of np.frombuffer
TensorRaises(t) ==
    t.data_type = FLOAT16 /\ t.raw_data # <<>> /\ FromBufferRaises(t.raw_data)

ConvertTensor_KeepTag(t) ==
    IF t.data_type = FLOAT16 /\ t.raw_data # <<>>
    THEN [t EXCEPT !.raw_data = ToBytes(AsType32(FromBuffer(t.raw_data)))]
    ELSE t

ConvertTensor(t) ==
    IF t.data_type = FLOAT16 /\ t.raw_data # <<>>
    THEN [t EXCEPT !.raw_data = ToBytes(AsType32(FromBuffer(t.raw_data))),
                   !.data_type = FLOAT]
    ELSE t

\* lines 55-56, 60-61, 66-67
ConvertDecl(d) ==
    IF d.elem_type = FLOAT16 THEN [d EXCEPT !.elem_type = FLOAT] ELSE d

ConvertDecls(ds) == [j \in 1..Len(ds) |-> ConvertDecl(ds[j])]

\* lines 71-75: the `to` attribute of a Cast node
FixCastAttr_AnyOp(op_type, a) ==
    IF a.name = "to" /\ a.i = FLOAT16 THEN [a EXCEPT !.i = FLOAT] ELSE a

FixCastAttr(op_type, a) ==
    IF op_type = "Cast" /\ a.name = "to" /\ a.i = FLOAT16
    THEN [a EXCEPT !.i = FLOAT]
    ELSE a

\* lines 78-87: the loop over a node's attributes stops at the first raise
\* and leaves the attributes before it converted
AttrRaises(a) == a.type = "TENSOR" /\ TensorRaises(a.t)

ConvertAttr(a) ==
    IF a.type = "TENSOR" THEN [a EXCEPT !.t = ConvertTensor(a.t)] ELSE a

FirstRaise(as) ==
    IF \E j \in 1..Len(as) : AttrRaises(as[j])
    THEN CHOOSE j \in 1..Len(as) :
            AttrRaises(as[j]) /\ \A h \in 1..(j - 1) : ~AttrRaises(as[h])
    ELSE Len(as) + 1

NodeRaises(n) == \E j \in 1..Len(n.attribute) : AttrRaises(n.attribute[j])

ConvertNode(n) ==
    LET cast == [j \in 1..Len(n.attribute) |-> FixCastAttr(n.op_type, n.attribute[j])]
        stop == FirstRaise(cast)
    IN  [n EXCEPT !.attribute =
            [j \in 1..Len(cast) |-> IF j < stop THEN ConvertAttr(cast[j]) ELSE cast[j]]]

-----------------------------------------------------------------------------
(* Graphs the conversion is run on *)

Tensor(name, ty, raw, dims) ==
    [name |-> name, data_type |-> ty, raw_data |-> raw, dims |-> dims]

\* a TensorProto with no field set
NoTensor == Tensor("", 0, <<>>, <<>>)

\* half 1.5, subnormal 0x0203, -inf, quiet NaN
HalfGood == Tensor("", FLOAT16, <<0, 62, 3, 2, 0, 252, 0, 126>>, <<4>>)
\* half -(smallest subnormal), 65504
HalfGood2 == Tensor("", FLOAT16, <<1, 128, 255, 123>>, <<2>>)
\* three bytes under a FLOAT16 tag
HalfOdd == Tensor("", FLOAT16, <<0, 62, 1>>, <<1>>)
\* FLOAT16 with nothing in raw_data
HalfEmpty == Tensor("", FLOAT16, <<>>, <<0>>)
\* single 1.5
Single == Tensor("", FLOAT, <<0, 0, 192, 63>>, <<1>>)
\* int64 1
Int64 == Tensor("", CHOOSE ty \in OTHER_TYPES : TRUE, <<1, 0, 0, 0, 0, 0, 0, 0>>, <<1>>)

TensorSamples == {HalfGood, HalfOdd, HalfEmpty, Single, Int64}

InitNames == <<"w1", "w2", "w3", "w4">>

Attr(name, type, i, t, tensors) ==
    [name |-> name, type |-> type, i |-> i, t |-> t, tensors |-> tensors]

IntAttr(name, i) == Attr(name, "INT", i, NoTensor, <<>>)
TensorAttr(name, t) == Attr(name, "TENSOR", 0, t, <<>>)
TensorsAttr(name, ts) == Attr(name, "TENSORS", 0, NoTensor, ts)

Node(op_type, input, attribute) ==
    [op_type |-> op_type, input |-> input, attribute |-> attribute]

NodeSamples ==
    { Node("Cast", <<"w1">>, <<IntAttr("to", FLOAT16)>>),
      Node("Cast", <<"w1">>, <<IntAttr("to", CHOOSE ty \in OTHER_TYPES : TRUE)>>),
      Node("EyeLike", <<"w2">>, <<IntAttr("to", FLOAT16), IntAttr("k", FLOAT16)>>),
      Node("Constant", <<>>, <<TensorAttr("value", HalfGood2)>>),
      Node("Constant", <<>>, <<TensorAttr("value", Single)>>),
      Node("Cast", <<"w1">>,
           <<TensorAttr("a", HalfGood2), IntAttr("to", FLOAT16), TensorAttr("b", HalfOdd)>>),
      Node("SequenceConstruct", <<>>, <<TensorsAttr("values", <<HalfGood2>>)>>) }

Decl(name, elem_type) == [name |-> name, elem_type |-> elem_type]

\* (graph.input, graph.output, graph.value_info) of the generated graphs
DeclSamples ==
    { <<<<>>, <<>>, <<>>>>,
      <<<<Decl("x", FLOAT16)>>, <<Decl("y", FLOAT16)>>, <<Decl("v", FLOAT16)>>>>,
      <<<<Decl("x", FLOAT), Decl("m", FLOAT16)>>,
        <<Decl("y", CHOOSE ty \in OTHER_TYPES : TRUE)>>,
        <<Decl("v", FLOAT)>>>> }

Graph(initializer, input, output, value_info, node) ==
    [initializer |-> initializer, input |-> input, output |-> output,
     value_info |-> value_info, node |-> node]

NoGraph == Graph(<<>>, <<>>, <<>>, <<>>, <<>>)

SeqsUpTo(S, n) == UNION {[1..m -> S] : m \in 0..n}

Named(ts) == [j \in 1..Len(ts) |-> [ts[j] EXCEPT !.name = InitNames[j]]]

\* every graph within the bounds
Graphs ==
    { Graph(Named(ts), d[1], d[2], d[3], ns) :
        ts \in SeqsUpTo(TensorSamples, MaxInit),
        d \in DeclSamples,
        ns \in SeqsUpTo(NodeSamples, MaxNodes) }

\* a few graphs for the batch runs: convertible, raising in the initializers,
\* raising in a node, keeping a FLOAT16 tensor, free of FLOAT16
BatchGraphs ==
    { Graph(Named(<<HalfGood>>), <<Decl("x", FLOAT16)>>, <<Decl("y", FLOAT16)>>, <<>>,
            <<Node("Cast", <<"w1">>, <<IntAttr("to", FLOAT16)>>)>>),
      Graph(Named(<<HalfGood, HalfOdd>>), <<Decl("x", FLOAT16)>>, <<>>, <<>>, <<>>),
      Graph(<<>>, <<>>, <<>>, <<>>,
            <<Node("Constant", <<>>, <<TensorAttr("value", HalfOdd)>>)>>),
      Graph(Named(<<HalfGood, HalfEmpty>>), <<>>, <<>>, <<>>, <<>>),
      Graph(Named(<<Single>>), <<Decl("x", FLOAT)>>, <<>>, <<>>, <<>>) }

-----------------------------------------------------------------------------
(* The batch driver, restore_fp32_onnx.py lines 93-109 *)

Onnx(stem) == <<stem, ".onnx">>

models ==
    << <<Onnx("ffanet-dehazing_indoor-fp16"), Onnx("ffanet-dehazing_indoor-fp32")>>,
       <<Onnx("ffanet-dehazing_outdoor-fp16"), Onnx("ffanet-dehazing_outdoor-fp32")>>,
       <<Onnx("mirnet_v2-lowlight-fp16"), Onnx("mirnet_v2-lowlight-fp32")>>,
       <<Onnx("mprnet-deraining-fp16"), Onnx("mprnet-deraining-fp32")>> >>

Inputs == {models[j][1] : j \in 1..Len(models)}
Outputs == {models[j][2] : j \in 1..Len(models)}

Absent == [kind |-> "absent", graph |-> NoGraph]
\* a file onnx.load cannot parse
Corrupt == [kind |-> "corrupt", graph |-> NoGraph]
Model(g) == [kind |-> "model", graph |-> g]

Event(ev) == [ev |-> ev, i |-> idx]

inp == models[idx][1]
outp == models[idx][2]

noAudit ==
    /\ lines = <<>> /\ ui_ids = <<>> /\ present = {} /\ mappings = <<>>
    /\ li = 0 /\ ui = 0 /\ missing_in_copy = <<>> /\ missing_on_disk = <<>>
    /\ queried = <<>> /\ apc = "off"

noClean == dir0 = <<>> /\ dir = <<>> /\ listing = {} /\ cpc = "off"

noConv ==
    /\ files = <<>> /\ idx = 0 /\ pc = "off" /\ graph = NoGraph /\ k = 0 /\ log = <<>>

ConvStart ==
    /\ idx = 1 /\ pc = "next" /\ graph = NoGraph /\ k = 0 /\ log = <<>>
    /\ noAudit /\ noClean

FilesWith(f) == [n \in Inputs \cup Outputs |-> IF n \in DOMAIN f THEN f[n] ELSE Absent]

\* a batch over four files, each missing, unreadable or one of BatchGraphs
Init ==
    /\ files \in { FilesWith(f) :
                     f \in [Inputs -> {Absent, Corrupt} \cup {Model(g) : g \in BatchGraphs}] }
    /\ ConvStart

\* the first file is any graph within the bounds, the others are missing
InitRewrite ==
    /\ files \in { FilesWith([n \in {models[1][1]} |-> c]) :
                     c \in {Absent, Corrupt} \cup {Model(g) : g \in Graphs} }
    /\ ConvStart

\* line 108-109: os.path.exists(inp_full) is false
Skip ==
    /\ UNCHANGED <<auditVars, cleanVars>>
    /\ pc = "next" /\ idx <= Len(models)
    /\ files[inp].kind = "absent"
    /\ log' = Append(log, Event("skipping"))
    /\ idx' = idx + 1
    /\ UNCHANGED <<files, pc, graph, k>>

\* lines 7-27: onnx.load raises, the except prints and returns False
LoadFail ==
    /\ UNCHANGED <<auditVars, cleanVars>>
    /\ pc = "next" /\ idx <= Len(models)
    /\ files[inp].kind = "corrupt"
    /\ log' = log \o <<Event("converting"), Event("error_loading")>>
    /\ idx' = idx + 1
    /\ UNCHANGED <<files, pc, graph, k>>

\* lines 7-9, 31: onnx.load returns the model
Load ==
    /\ UNCHANGED <<auditVars, cleanVars>>
    /\ pc = "next" /\ idx <= Len(models)
    /\ files[inp].kind = "model"
    /\ log' = Append(log, Event("converting"))
    /\ graph' = files[inp].graph
    /\ pc' = "initializer" /\ k' = 1
    /\ UNCHANGED <<files, idx>>

\* an exception nothing catches: the interpreter prints the traceback and exits
Raise ==
    /\ pc' = "crashed"
    /\ log' = Append(log, Event("traceback"))
    /\ UNCHANGED <<files, idx, k>>

\* lines 34-51, one tensor of graph.initializer
ConvertInitializer ==
    /\ UNCHANGED <<auditVars, cleanVars>>
    /\ pc = "initializer" /\ k <= Len(graph.initializer)
    /\ IF TensorRaises(graph.initializer[k])
       THEN Raise /\ UNCHANGED graph
       ELSE /\ graph' = [graph EXCEPT !.initializer[k] = ConvertTensor(@)]
            /\ k' = k + 1
            /\ UNCHANGED <<files, idx, pc, log>>

\* lines 54-56, the loop over graph.input
ConvertInputs ==
    /\ UNCHANGED <<auditVars, cleanVars>>
    /\ pc = "initializer" /\ k > Len(graph.initializer)
    /\ graph' = [graph EXCEPT !.input = ConvertDecls(@)]
    /\ pc' = "output"
    /\ UNCHANGED <<files, idx, k, log>>

\* lines 59-61, the loop over graph.output
ConvertOutputs ==
    /\ UNCHANGED <<auditVars, cleanVars>>
    /\ pc = "output"
    /\ graph' = [graph EXCEPT !.output = ConvertDecls(@)]
    /\ pc' = "value_info"
    /\ UNCHANGED <<files, idx, k, log>>

\* lines 65-67, the loop over graph.value_info
ConvertValueInfo ==
    /\ UNCHANGED <<auditVars, cleanVars>>
    /\ pc = "value_info"
    /\ graph' = [graph EXCEPT !.value_info = ConvertDecls(@)]
    /\ pc' = "node" /\ k' = 1
    /\ UNCHANGED <<files, idx, log>>

\* lines 70-87, one node of graph.node
ConvertGraphNode ==
    /\ UNCHANGED <<auditVars, cleanVars>>
    /\ pc = "node" /\ k <= Len(graph.node)
    /\ graph' = [graph EXCEPT !.node[k] = ConvertNode(@)]
    /\ IF NodeRaises(graph.node[k])
       THEN Raise
       ELSE k' = k + 1 /\ UNCHANGED <<files, idx, pc, log>>

\* lines 89-91: onnx.save writes the output and the script goes to the next pair
Save ==
    /\ UNCHANGED <<auditVars, cleanVars>>
    /\ pc = "node" /\ k > Len(graph.node)
    /\ files' = [files EXCEPT ![outp] = Model(graph)]
    /\ log' = Append(log, Event("saved"))
    /\ idx' = idx + 1 /\ pc' = "next"
    /\ UNCHANGED <<graph, k>>

\* line 89: onnx.save raises (unwritable directory, full disk)
SaveFail ==
    /\ UNCHANGED <<auditVars, cleanVars>>
    /\ pc = "node" /\ k > Len(graph.node)
    /\ Raise /\ UNCHANGED graph

\* the for loop of line 102 is exhausted
Finish ==
    /\ UNCHANGED <<auditVars, cleanVars>>
    /\ pc = "next" /\ idx > Len(models)
    /\ pc' = "done"
    /\ UNCHANGED <<files, idx, graph, k, log>>

ConvNext ==
    \/ Skip \/ LoadFail \/ Load
    \/ ConvertInitializer \/ ConvertInputs \/ ConvertOutputs
    \/ ConvertValueInfo \/ ConvertGraphNode
    \/ Save \/ SaveFail \/ Finish

Spec == Init /\ [][ConvNext]_vars

SpecRewrite == InitRewrite /\ [][ConvNext]_vars

-----------------------------------------------------------------------------
(* The whole rewrite pass as a function, lines 31-87 *)

FirstRaisingTensor(ts) ==
    IF \E j \in 1..Len(ts) : TensorRaises(ts[j])
    THEN CHOOSE j \in 1..Len(ts) :
            TensorRaises(ts[j]) /\ \A h \in 1..(j - 1) : ~TensorRaises(ts[h])
    ELSE Len(ts) + 1

FirstRaisingNode(ns) ==
    IF \E j \in 1..Len(ns) : NodeRaises(ns[j])
    THEN CHOOSE j \in 1..Len(ns) :
            NodeRaises(ns[j]) /\ \A h \in 1..(j - 1) : ~NodeRaises(ns[h])
    ELSE Len(ns) + 1

\* the graph as the pass leaves it, and whether the pass ended in a raise
RewriteGraph(g) ==
    LET ti == FirstRaisingTensor(g.initializer)
        ni == FirstRaisingNode(g.node)
        inits == [j \in 1..Len(g.initializer) |->
                    IF j < ti THEN ConvertTensor(g.initializer[j]) ELSE g.initializer[j]]
    IN  IF ti <= Len(g.initializer)
        THEN [raised |-> TRUE, graph |-> [g EXCEPT !.initializer = inits]]
        ELSE [raised |-> ni <= Len(g.node),
              graph |-> Graph(inits, ConvertDecls(g.input), ConvertDecls(g.output),
                              ConvertDecls(g.value_info),
                              [j \in 1..Len(g.node) |->
                                 IF j <= ni THEN ConvertNode(g.node[j]) ELSE g.node[j]])]

-----------------------------------------------------------------------------
(* Vocabulary of the properties *)

\* the graph as it was loaded, while the script is at pair idx
orig == files[inp].graph

\* the script is inside the rewrite of pair idx, or was stopped by a raise
Rewriting == pc \in {"initializer", "output", "value_info", "node", "crashed"}

\* the rewrite pass of pair idx has run to its end; onnx.save is next
RewriteDone == pc = "node" /\ k > Len(graph.node)

Terminated == pc \in {"done", "crashed"}

Range(f) == {f[j] : j \in DOMAIN f}

\* every TensorView of a graph: initializers and tensors embedded in attributes
AttrTensors(a) ==
    (IF a.type = "TENSOR" THEN {a.t} ELSE {}) \cup
    (IF a.type = "TENSORS" THEN Range(a.tensors) ELSE {})

GraphTensors(g) ==
    Range(g.initializer) \cup
    UNION {AttrTensors(a) : a \in UNION {Range(n.attribute) : n \in Range(g.node)}}

GraphDecls(g) == Range(g.input) \cup Range(g.output) \cup Range(g.value_info)

NoHalf(g) ==
    /\ \A t \in GraphTensors(g) : t.data_type # FLOAT16
    /\ \A d \in GraphDecls(g) : d.elem_type # FLOAT16

CastTo(n) == {a \in Range(n.attribute) : a.name = "to"}

NoCastToHalf(g) ==
    \A n \in Range(g.node) : n.op_type = "Cast" => \A a \in CastTo(n) : a.i # FLOAT16

FullyConverted(g) == NoHalf(g) /\ NoCastToHalf(g)

Reported(j, evs) == \E e \in Range(log) : e.i = j /\ e.ev \in evs

-----------------------------------------------------------------------------
(* C1 *)

\* C1: when the rewrite pass has run on a graph, no tensor (initializer, tensor
\* attribute, tensor of a list attribute, empty payload or not) and no
\* declaration (input, output, value_info) of the graph is FLOAT16.
C1_NoHalfAfterRewrite == RewriteDone => NoHalf(graph)

-----------------------------------------------------------------------------
(* C2 *)

Outcomes(j) == {e.ev : e \in {x \in Range(log) : x.i = j}} \ {"converting"}

\* C2: the driver walks the whole list in order; when the run has ended every
\* pair has exactly one outcome: skipped, saved, or a reported failure after
\* which the later pairs were still processed, so the run ends at the end of
\* the list.
C2_BatchContinues ==
    /\ \A a, b \in 1..Len(log) : a < b => log[a].i <= log[b].i
    /\ Terminated =>
         /\ pc = "done"
         /\ \A j \in 1..Len(models) :
              /\ Cardinality(Outcomes(j)) = 1
              /\ files[models[j][1]].kind = "absent" <=> Outcomes(j) = {"skipping"}

-----------------------------------------------------------------------------
(* C3 *)

\* C3: save runs only after the file's rewrite fully succeeded: a failed load or
\* an odd-length FLOAT16 payload is reported and leaves no output, and every
\* output that exists is a fully converted graph.
C3_OutputsFullyConverted ==
    \A j \in 1..Len(models) :
        LET i == files[models[j][1]]
            o == files[models[j][2]]
            over == j < idx \/ (j = idx /\ pc = "crashed")
        IN  /\ o.kind # "absent" =>
                /\ o.kind = "model"
                /\ Reported(j, {"saved"})
                /\ ~RewriteGraph(i.graph).raised
                /\ FullyConverted(o.graph)
            /\ (over /\ i.kind = "corrupt") =>
                o.kind = "absent" /\ Reported(j, {"error_loading"})
            /\ (over /\ i.kind = "model" /\ RewriteGraph(i.graph).raised) =>
                o.kind = "absent" /\ Reported(j, {"traceback"})

-----------------------------------------------------------------------------
(* C4 *)

\* C4: the rewrite is idempotent: the pass run on its own result changes
\* nothing, rewrite(rewrite(G)) = rewrite(G), also when the pass stops in a raise.
C4_Idempotent ==
    (RewriteDone \/ pc = "crashed") =>
        /\ graph = RewriteGraph(orig).graph
        /\ RewriteGraph(graph).graph = graph
        /\ RewriteDone => ~RewriteGraph(graph).raised

C4_Witness ==
    /\ RewriteDone /\ graph # orig
    /\ \E t \in GraphTensors(orig) : t.data_type = FLOAT16 /\ t.raw_data # <<>>
    /\ \E n \in Range(orig.node) : n.op_type = "Cast" /\ \E a \in CastTo(n) : a.i = FLOAT16
    /\ \E t \in GraphTensors(orig) : t.data_type = FLOAT

-----------------------------------------------------------------------------
(* C5 *)

\* the sites the rewrite is there to change
HalfAttr(op_type, a) ==
    \/ op_type = "Cast" /\ a.name = "to" /\ a.i = FLOAT16
    \/ a.type = "TENSOR" /\ a.t.data_type = FLOAT16

HalfFree(g) ==
    /\ \A t \in Range(g.initializer) : t.data_type # FLOAT16
    /\ \A d \in GraphDecls(g) : d.elem_type # FLOAT16
    /\ \A n \in Range(g.node) : \A a \in Range(n.attribute) : ~HalfAttr(n.op_type, a)

SameDomain(f, g) == DOMAIN f = DOMAIN g

DeclsFramed(o, c) ==
    /\ SameDomain(o, c)
    /\ \A j \in DOMAIN o :
        /\ c[j].name = o[j].name
        /\ o[j].elem_type # FLOAT16 => c[j] = o[j]

Framed(o, c) ==
    /\ SameDomain(o.initializer, c.initializer)
    /\ \A j \in DOMAIN o.initializer :
        LET ot == o.initializer[j]
            ct == c.initializer[j]
        IN  /\ ct.name = ot.name /\ ct.dims = ot.dims
            /\ ot.data_type # FLOAT16 => ct = ot
    /\ DeclsFramed(o.input, c.input)
    /\ DeclsFramed(o.output, c.output)
    /\ DeclsFramed(o.value_info, c.value_info)
    /\ SameDomain(o.node, c.node)
    /\ \A j \in DOMAIN o.node :
        LET on == o.node[j]
            cn == c.node[j]
        IN  /\ cn.op_type = on.op_type /\ cn.input = on.input
            /\ SameDomain(on.attribute, cn.attribute)
            /\ \A h \in DOMAIN on.attribute :
                LET oa == on.attribute[h]
                    ca == cn.attribute[h]
                IN  /\ ca.name = oa.name /\ ca.type = oa.type
                    /\ ca.tensors = oa.tensors
                    /\ ~HalfAttr(on.op_type, oa) => ca = oa
                    /\ ~(on.op_type = "Cast" /\ oa.name = "to" /\ oa.i = FLOAT16)
                          => ca.i = oa.i
                    /\ oa.t.data_type # FLOAT16 => ca.t = oa.t

\* C5: the rewrite changes nothing except FLOAT16 sites: non-FLOAT16 tensors
\* keep tag and payload, non-FLOAT16 declarations keep their tag, every
\* attribute other than a Cast node's `to` = FLOAT16 or an embedded FLOAT16
\* tensor is unchanged (a `to` on a non-Cast node too), names, order and
\* structure stay; a graph free of FLOAT16 is left identical.
C5_Frame ==
    Rewriting =>
        /\ Framed(orig, graph)
        /\ HalfFree(orig) => graph = orig

C5_Witness ==
    /\ RewriteDone /\ graph # orig
    /\ \E n \in Range(orig.node) :
         n.op_type # "Cast" /\ \E a \in CastTo(n) : a.i = FLOAT16
    /\ \E t \in Range(orig.initializer) : t.data_type \in OTHER_TYPES

C5_WitnessHalfFree == RewriteDone /\ HalfFree(orig) /\ orig # NoGraph

-----------------------------------------------------------------------------
(* C6 *)

CastsFixed(o, c) ==
    \A j \in DOMAIN o.node :
        o.node[j].op_type = "Cast" =>
            \A h \in DOMAIN o.node[j].attribute :
                LET oa == o.node[j].attribute[h]
                    ca == c.node[j].attribute[h]
                IN  oa.name = "to" =>
                        /\ ca.i # FLOAT16
                        /\ oa.i = FLOAT16 => ca.i = FLOAT
                        /\ oa.i # FLOAT16 => ca.i = oa.i

Feeding(g, n) == {t \in Range(g.initializer) : t.name \in Range(n.input)}

\* C6: after the rewrite every Cast node whose `to` was FLOAT16 has `to` = FLOAT,
\* no Cast node has `to` = FLOAT16, any other `to` is kept, and no tensor
\* feeding a Cast node is still FLOAT16.
C6_CastConsistency ==
    RewriteDone =>
        /\ CastsFixed(orig, graph)
        /\ \A n \in Range(graph.node) :
              n.op_type = "Cast" => \A t \in Feeding(graph, n) : t.data_type # FLOAT16

\* the part of C6 about the `to` attribute alone
C6_CastToRewritten == RewriteDone => CastsFixed(orig, graph)

-----------------------------------------------------------------------------
(* C9 *)

\* m * 2^e with the factors of two moved out of m
RECURSIVE Canon(_, _)
Canon(m, e) == IF m = 0 THEN <<0, 0>> ELSE IF m % 2 = 0 THEN Canon(m \div 2, e + 1) ELSE <<m, e>>

Value(cls, s, mag) == [cls |-> cls, s |-> s, mag |-> mag]

\* the number an IEEE-754 half-precision bit pattern stands for
HalfValue(h) ==
    LET s == h \div 32768
        e == (h \div 1024) % 32
        m == h % 1024
    IN  IF e = 31 THEN Value(IF m = 0 THEN "inf" ELSE "nan", s, <<0, 0>>)
        ELSE IF e = 0 THEN Value("finite", s, Canon(m, -24))
        ELSE Value("finite", s, Canon(1024 + m, e - 25))

\* the number four little-endian bytes stand for as IEEE-754 single precision
SingleValue(b) ==
    LET s == b[4] \div 128
        e == (b[4] % 128) * 2 + (b[3] \div 128)
        m == (b[3] % 128) * 65536 + b[2] * 256 + b[1]
    IN  IF e = 255 THEN Value(IF m = 0 THEN "inf" ELSE "nan", s, <<0, 0>>)
        ELSE IF e = 0 THEN Value("finite", s, Canon(m, -149))
        ELSE Value("finite", s, Canon(8388608 + m, e - 150))

RECURSIVE Product(_)
Product(ds) == IF ds = <<>> THEN 1 ELSE Head(ds) * Product(Tail(ds))

ElementCount(t) == Product(t.dims)

WellSized(t) == Len(t.raw_data) = ElementCount(t) * SizeOf(t.data_type)

\* c is o widened: tag and payload changed together, element by element
Widened(o, c) ==
    /\ o.data_type = FLOAT16 /\ c.data_type = FLOAT
    /\ c.name = o.name /\ c.dims = o.dims
    /\ Len(o.raw_data) % 2 = 0
    /\ Len(c.raw_data) = 2 * Len(o.raw_data)
    /\ \A j \in 1..(Len(o.raw_data) \div 2) :
          SingleValue(SubSeq(c.raw_data, 4 * j - 3, 4 * j))
            = HalfValue(o.raw_data[2 * j - 1] + 256 * o.raw_data[2 * j])

TensorKept(o, c) ==
    /\ c = o \/ Widened(o, c)
    /\ WellSized(o) => WellSized(c)

\* a tensor the loop has passed is widened when it is well-formed FLOAT16 with
\* a payload; one the loop has not reached is as loaded
TensorVisit(o, c, visited) ==
    /\ (visited /\ o.data_type = FLOAT16 /\ WellSized(o) /\ o.raw_data # <<>>) => Widened(o, c)
    /\ ~visited => c = o

\* the loop positions already behind the script
InitializerVisited(j) == pc # "initializer" \/ j < k
NodeVisited(j) == pc = "node" /\ j < k

\* C9: tag and payload change together and element-wise: at every point of the
\* rewrite each tensor (initializer or attribute tensor) is either untouched or
\* tagged FLOAT with the same element count, twice the bytes and, element by
\* element, the exact single-precision value of the original half; the payload
\* length stays element_count * size_of(tag); a visited well-formed FLOAT16
\* tensor is widened.
C9_TagAndPayloadTogether ==
    Rewriting =>
        /\ SameDomain(orig.initializer, graph.initializer)
        /\ \A j \in DOMAIN orig.initializer :
              /\ TensorKept(orig.initializer[j], graph.initializer[j])
              /\ pc # "crashed" =>
                    TensorVisit(orig.initializer[j], graph.initializer[j],
                                InitializerVisited(j))
        /\ SameDomain(orig.node, graph.node)
        /\ \A j \in DOMAIN orig.node :
              /\ SameDomain(orig.node[j].attribute, graph.node[j].attribute)
              /\ \A h \in DOMAIN orig.node[j].attribute :
                    LET oa == orig.node[j].attribute[h]
                        ca == graph.node[j].attribute[h]
                    IN  oa.type = "TENSOR" =>
                          /\ TensorKept(oa.t, ca.t)
                          /\ pc # "crashed" => TensorVisit(oa.t, ca.t, NodeVisited(j))

C9_Witness ==
    /\ RewriteDone
    /\ \E j \in DOMAIN orig.initializer :
          /\ orig.initializer[j].data_type = FLOAT16
          /\ Len(orig.initializer[j].raw_data) = 8
          /\ graph.initializer[j] # orig.initializer[j]
    /\ \E n \in Range(graph.node) : \E a \in Range(n.attribute) :
          a.type = "TENSOR" /\ a.t.data_type = FLOAT /\ Len(a.t.raw_data) = 8

-----------------------------------------------------------------------------
(* verify_model_chain.py: texts as token sequences *)

Tok(kind) == [k |-> kind, v |-> <<>>]
\* a single-quoted string and what is between the quotes
Quoted(v) == [k |-> "q", v |-> v]

\* { src: '<src>', dest: '<dest>' },
Entry(src, dest) ==
    << Tok("text"), Tok("ws"), Tok("src:"), Tok("ws"), Quoted(src), Tok(","), Tok("ws"),
       Tok("dest:"), Tok("ws"), Quoted(dest), Tok("text") >>

PathXA == <<"/", "x", "/", "a.bin">>
PathYA == <<"/", "y", "/", "a.bin">>
PathXB == <<"/", "x", "/", "b.bin">>

LineSamples ==
    { Entry(PathXA, <<"models", "/", "a", ".onnx">>),
      \* a second entry for `a`, with a trailing comment
      Entry(PathYA, <<"other", "/", "a", ".onnx">>) \o <<Tok("//"), Tok("text")>>,
      \* commented out
      <<Tok("//")>> \o Entry(PathXB, <<"models", "/", "b", ".onnx">>),
      \* src: and dest: with no comma between them
      <<Tok("src:"), Quoted(PathXB), Tok("ws"), Tok("dest:"), Quoted(<<"b", ".onnx">>)>>,
      \* a destination with .onnx twice in its file name
      Entry(PathXB, <<"models", "/", "b", ".onnx", ".onnx">>),
      <<Tok("text")>> }

UiSamples == {<<"a">>, <<"b">>, <<"c">>}

PresentSamples == {{PathXA}, {PathYA, PathXB}}

Kinds(line) == {line[j].k : j \in DOMAIN line}

\* line.split("src:")[0]
BeforeSrc(line) ==
    IF "src:" \in Kinds(line)
    THEN SubSeq(line, 1, (CHOOSE j \in DOMAIN line :
                            line[j].k = "src:" /\ \A h \in 1..(j - 1) : line[h].k # "src:") - 1)
    ELSE line

\* line 23
IsCandidate(line) ==
    "src:" \in Kinds(line) /\ "dest:" \in Kinds(line) /\ "//" \notin Kinds(BeforeSrc(line))

\* \s*
RECURSIVE SkipWs(_, _)
SkipWs(line, p) ==
    IF p <= Len(line) /\ line[p].k = "ws" THEN SkipWs(line, p + 1) ELSE p

IsAt(line, p, kind) == p <= Len(line) /\ line[p].k = kind

\* src:\s*'([^']+)',\s*dest:\s*'([^']+)' anchored at token p
MatchAt(line, p) ==
    LET p1 == SkipWs(line, p + 1)
        p2 == SkipWs(line, p1 + 2)
        p3 == SkipWs(line, p2 + 1)
    IN  IF /\ IsAt(line, p, "src:")
           /\ IsAt(line, p1, "q") /\ line[p1].v # <<>>
           /\ IsAt(line, p1 + 1, ",")
           /\ IsAt(line, p2, "dest:")
           /\ IsAt(line, p3, "q") /\ line[p3].v # <<>>
        THEN [ok |-> TRUE, src |-> line[p1].v, dest |-> line[p3].v]
        ELSE [ok |-> FALSE, src |-> <<>>, dest |-> <<>>]

\* line 26: re.search, the leftmost match
Search(line) ==
    IF \E p \in DOMAIN line : MatchAt(line, p).ok
    THEN MatchAt(line, CHOOSE p \in DOMAIN line :
                         MatchAt(line, p).ok /\ \A h \in 1..(p - 1) : ~MatchAt(line, h).ok)
    ELSE [ok |-> FALSE, src |-> <<>>, dest |-> <<>>]

\* line 32: os.path.basename
RECURSIVE Basename(_)
Basename(path) ==
    IF "/" \in Range(path)
    THEN Basename(Tail(path))
    ELSE path

\* line 33: basename.replace('.onnx', ''), every occurrence
ModelId(basename) == SelectSeq(basename, LAMBDA x : x # ".onnx")

\* line 34: mappings[model_id] = src
Put(m, key, val) == [x \in DOMAIN m \cup {key} |-> IF x = key THEN val ELSE m[x]]

\* line 53: os.path.exists
Exists_Always(path) == TRUE

Exists(path) == path \in present

InitAudit ==
    /\ lines \in SeqsUpTo(LineSamples, MaxLines)
    /\ ui_ids \in SeqsUpTo(UiSamples, MaxUi)
    /\ present \in PresentSamples
    /\ mappings = <<>> /\ li = 1 /\ ui = 0
    /\ missing_in_copy = <<>> /\ missing_on_disk = <<>> /\ queried = <<>>
    /\ apc = "scan"
    /\ noConv /\ noClean

\* lines 22-34, one line of the manifest
ScanLine ==
    /\ UNCHANGED <<convVars, cleanVars>>
    /\ apc = "scan" /\ li <= Len(lines)
    /\ LET m == Search(lines[li])
       IN  mappings' = IF IsCandidate(lines[li]) /\ m.ok
                       THEN Put(mappings, ModelId(Basename(m.dest)), m.src)
                       ELSE mappings
    /\ li' = li + 1
    /\ UNCHANGED <<lines, ui_ids, present, ui, missing_in_copy, missing_on_disk, queried, apc>>

\* lines 36-43: the manifest is read, the verification starts
StartVerification ==
    /\ UNCHANGED <<convVars, cleanVars>>
    /\ apc = "scan" /\ li > Len(lines)
    /\ apc' = "verify" /\ ui' = 1
    /\ missing_in_copy' = <<>> /\ missing_on_disk' = <<>>
    /\ UNCHANGED <<lines, ui_ids, present, mappings, li, queried>>

\* lines 45-54, one UI identifier
Verify ==
    /\ UNCHANGED <<convVars, cleanVars>>
    /\ apc = "verify" /\ ui <= Len(ui_ids)
    /\ LET uid == ui_ids[ui]
       IN  IF uid \notin DOMAIN mappings
           THEN /\ missing_in_copy' = Append(missing_in_copy, uid)
                /\ UNCHANGED <<missing_on_disk, queried>>
           ELSE /\ queried' = Append(queried, mappings[uid])
                /\ missing_on_disk' =
                      IF ~Exists(mappings[uid])
                      THEN Append(missing_on_disk, <<uid, mappings[uid]>>)
                      ELSE missing_on_disk
                /\ UNCHANGED missing_in_copy
    /\ ui' = ui + 1
    /\ UNCHANGED <<lines, ui_ids, present, mappings, li, apc>>

\* lines 56-68: the two lists are printed
Report ==
    /\ UNCHANGED <<convVars, cleanVars>>
    /\ apc = "verify" /\ ui > Len(ui_ids)
    /\ apc' = "done"
    /\ UNCHANGED <<lines, ui_ids, present, mappings, li, ui,
                   missing_in_copy, missing_on_disk, queried>>

AuditNext == ScanLine \/ StartVerification \/ Verify \/ Report

SpecAudit == InitAudit /\ [][AuditNext]_vars

-----------------------------------------------------------------------------
(* C7 *)

\* the UI identifiers the verification loop has been through
Verified == SubSeq(ui_ids, 1, ui - 1)

Unmapped(u) == u \notin DOMAIN mappings
MappedAbsent(u) == u \in DOMAIN mappings /\ mappings[u] \notin present
Mapped(u) == u \in DOMAIN mappings
PairOf(u) == <<u, mappings[u]>>
PathOf(u) == mappings[u]

\* C7: every occurrence of a UI identifier, in UI order with duplicates kept,
\* has exactly one outcome: unmapped and in "missing mapping", mapped to an
\* absent path and in "missing on disk" with that path, or in neither list;
\* nothing else is in the lists, and existence is asked for mapped identifiers
\* only.
C7_Reconciliation ==
    apc \in {"verify", "done"} =>
        /\ missing_in_copy = SelectSeq(Verified, Unmapped)
        /\ missing_on_disk = LET sel == SelectSeq(Verified, MappedAbsent)
                            IN  [j \in DOMAIN sel |-> PairOf(sel[j])]
        /\ queried = LET sel == SelectSeq(Verified, Mapped)
                    IN  [j \in DOMAIN sel |-> PathOf(sel[j])]
        /\ \A u \in Range(missing_in_copy) : \A q \in Range(missing_on_disk) : q[1] # u
        /\ (/\ apc = "done"
            /\ ui_ids = <<<<"a">>, <<"b">>, <<"c">>>>
            /\ mappings = Put(Put(<<>>, <<"a">>, PathXA), <<"b">>, PathXB)
            /\ present = {PathXA})
           => /\ missing_in_copy = <<<<"c">>>>
              /\ missing_on_disk = <<PairOf(<<"b">>)>>

C7_Witness ==
    /\ apc = "done"
    /\ ui_ids = <<<<"a">>, <<"b">>, <<"c">>>>
    /\ mappings = Put(Put(<<>>, <<"a">>, PathXA), <<"b">>, PathXB)
    /\ present = {PathXA}
    /\ missing_on_disk = <<<<<<"b">>, PathXB>>>>

-----------------------------------------------------------------------------
(* C8 *)

\* the final path segment with the suffix .onnx stripped
SuffixStripped(basename) ==
    IF basename # <<>> /\ basename[Len(basename)] = ".onnx"
    THEN SubSeq(basename, 1, Len(basename) - 1)
    ELSE basename

\* the Mapping after the first n lines, each matching line overwriting
RECURSIVE LastWriteWins(_, _)
LastWriteWins(n, strip) ==
    IF n = 0 THEN <<>>
    ELSE LET m == Search(lines[n])
             before == LastWriteWins(n - 1, strip)
             base == Basename(m.dest)
         IN  IF IsCandidate(lines[n]) /\ m.ok
             THEN Put(before, IF strip THEN SuffixStripped(base) ELSE ModelId(base), m.src)
             ELSE before

\* C8: scanning the lines in order, each uncommented line with src: and dest:
\* that matches the pattern sets Mapping[identifier] to its src path, the
\* identifier being the final segment of dest with the suffix .onnx stripped;
\* the last entry for an identifier wins and other lines change nothing.
C8_LastWriteWins ==
    apc \in {"scan", "verify", "done"} => mappings = LastWriteWins(li - 1, TRUE)

\* C8 with the identifier as line 33 computes it
C8_LastWriteWinsReplaceAll ==
    apc \in {"scan", "verify", "done"} => mappings = LastWriteWins(li - 1, FALSE)

-----------------------------------------------------------------------------
(* standardize_restoration_models.py *)

\* lines 19-27
used_names ==
    << Onnx("mirnet_v2-lowlight-fp16"),
       Onnx("mprnet-deraining-fp16"),
       Onnx("nafnet-image-deblurringfp16"),
       Onnx("nafnet-motion-deblurring-fp16"),
       Onnx("nafnet-denoising-fp16"),
       Onnx("ffanet-dehazing_indoor-fp16"),
       Onnx("ffanet-dehazing_outdoor-fp16") >>

\* names the restoration directory may hold when the cleanup starts
EntryNames ==
    Inputs \cup
    { Onnx("nafnet-image-deblurringfp16"),
      Onnx("mirnet_v2-lowlight-fp32"),
      Onnx("junk"),
      <<"weights", ".data">>,
      <<"notes", ".onnx", ".bak">> }

Directories == UNION {[S -> {"file", "dir"}] : S \in {T \in SUBSET EntryNames : Cardinality(T) <= MaxEntries}}

\* f.endswith(".onnx")
EndsWithOnnx(f) == f # <<>> /\ f[Len(f)] = ".onnx"

\* lines 32-43: whether the loop body removes entry f
Removes_NamesFirst(f, kind) ==
    IF EndsWithOnnx(f) THEN f \notin Range(used_names) ELSE TRUE

Removes(f, kind) ==
    IF kind = "dir" THEN TRUE
    ELSE IF EndsWithOnnx(f) THEN f \notin Range(used_names)
    ELSE TRUE

Without(d, f) == [n \in (DOMAIN d) \ {f} |-> d[n]]

InitCleanup ==
    /\ dir0 \in Directories
    /\ dir = dir0 /\ listing = {} /\ cpc = "start"
    /\ noConv /\ noAudit

\* line 31: os.listdir(".")
ListDir ==
    /\ UNCHANGED <<convVars, auditVars>>
    /\ cpc = "start"
    /\ listing' = DOMAIN dir
    /\ cpc' = "loop"
    /\ UNCHANGED <<dir0, dir>>

\* lines 32-43, one entry of the listing, in whatever order listdir gave
CleanEntry ==
    /\ UNCHANGED <<convVars, auditVars>>
    /\ cpc = "loop"
    /\ \E f \in listing :
        /\ dir' = IF Removes(f, dir[f]) THEN Without(dir, f) ELSE dir
        /\ listing' = listing \ {f}
    /\ UNCHANGED <<dir0, cpc>>

\* the loop of line 31 is exhausted, main returns
CleanupReturns ==
    /\ UNCHANGED <<convVars, auditVars>>
    /\ cpc = "loop" /\ listing = {}
    /\ cpc' = "done"
    /\ UNCHANGED <<dir0, dir, listing>>

CleanupNext == ListDir \/ CleanEntry \/ CleanupReturns

SpecCleanup == InitCleanup /\ [][CleanupNext]_vars

-----------------------------------------------------------------------------
(* C10 *)

Kept == {n \in DOMAIN dir0 : dir0[n] = "file" /\ n \in Range(used_names)}

====
